---- MODULE Spec2Model ----
(***************************************************************************)
(* Model of src/uisp_api/uisp.py: the UispApi client.                      *)
(*                                                                         *)
(* The client object holds five attributes set by the constructor.  Every  *)
(* public operation funnels through one of two private helpers, each of    *)
(* which builds a URL, attaches headers, calls requests.get and turns the  *)
(* response into a returned value or a raised exception.                   *)
(*                                                                         *)
(* Strings that the code only passes around are TLA+ strings.  Strings the *)
(* code assembles are sequences of pieces, so that a URL is the sequence   *)
(* of the pieces str.format puts together, and a MAC address is a sequence *)
(* of one-character strings that quote_plus rewrites character by          *)
(* character.                                                              *)
(***************************************************************************)
EXTENDS Integers, Sequences, FiniteSets, TLC

VARIABLES
    pc,                 \* "new" | "idle" | "waiting" | "returning"
    init_args,          \* the arguments __init__ was called with
    _secure,            \* self._secure
    _server,            \* self._server
    _api_version_crm,   \* self._api_version_crm
    _api_version_nms,   \* self._api_version_nms
    _app_key,           \* self._app_key
    op,                 \* the operation the caller invoked, with its arguments
    hcall,              \* the arguments of the private helper call in progress
    sent,               \* the HTTP requests issued by the invocation in progress
    response,           \* what requests.get came back with
    outcome             \* what the invocation hands to its caller

attrs == <<_secure, _server, _api_version_crm, _api_version_nms, _app_key>>
vars == <<pc, init_args, _secure, _server, _api_version_crm, _api_version_nms,
          _app_key, op, hcall, sent, response, outcome>>

---------------------------------------------------------------------------
(* Bounds of the model. *)

\* longest MAC string handed to get_device_by_mac
MaxMacLen == 2
\* largest number of keyword filters handed to device_list
MaxFilters == 2

---------------------------------------------------------------------------
(* Input domains. *)

Servers == {"uisp.example.com", "10.0.0.1"}
AppKeys == {"key-A", "key-B"}
\* 'v1.0' and 'v2.1' are the constructor's defaults
CrmVersions == {"v1.0", "v2.0"}
NmsVersions == {"v2.1", "v2.0"}

\* one unreserved character, the reserved ones a MAC or path can carry, the
\* space quote_plus treats specially, and the two characters a decoder reads
\* specially
MacChars == {"a", ":", "/", " ", "+", "%"}
Macs == UNION {[1..n -> MacChars] : n \in 0..MaxMacLen}

DeviceIds == {"dev-1", "dev-2"}

FilterKeys == {"role", "type", "name"}
FilterValues == {"ap", "router"}
Kwargs == UNION {[K -> FilterValues] :
                    K \in {S \in SUBSET FilterKeys : Cardinality(S) <= MaxFilters}}

\* 'put' stands for any string outside the helper's list of known verbs
CallMethods == {"get", "delete", "patch", "post", "put"}
ReturnTypes == {"json", "raw"}
SubPaths == {<<"version">>, <<"gateways">>}

StatusCodes == {200, 201, 204, 404, 500}

NoVersion == "<absent>"
BodyText == [kind |-> "text", version |-> NoVersion]       \* not JSON
BodyArray == [kind |-> "array", version |-> NoVersion]     \* a JSON list
BodyObject(v) == [kind |-> "object", version |-> v]        \* a JSON object
NoBody == [kind |-> "none", version |-> NoVersion]
Bodies == {BodyText, BodyArray, BodyObject(NoVersion),
           BodyObject("1.13.0"), BodyObject("2.0.0")}

\* ok = FALSE: requests.get raised (no response was received)
NoResponse == [received |-> FALSE, ok |-> FALSE, status |-> 0, body |-> NoBody]
TransportFailure == [received |-> TRUE, ok |-> FALSE, status |-> 0, body |-> NoBody]
HttpResponse(s, b) == [received |-> TRUE, ok |-> TRUE, status |-> s, body |-> b]
Responses == {TransportFailure} \cup {HttpResponse(s, b) : s \in StatusCodes, b \in Bodies}

---------------------------------------------------------------------------
(* Python values and outcomes. *)

NoneParams == [none |-> TRUE, items |-> <<>>]
DictParams(d) == [none |-> FALSE, items |-> d]

NoneValue == [tag |-> "None", body |-> NoBody, str |-> ""]
JsonValue(b) == [tag |-> "json", body |-> b, str |-> ""]
RawValue(b) == [tag |-> "raw", body |-> b, str |-> ""]
StrValue(s) == [tag |-> "str", body |-> NoBody, str |-> s]

NoOutcome == [kind |-> "none", value |-> NoneValue, exc |-> "", msg |-> <<>>]
Returned(v) == [kind |-> "return", value |-> v, exc |-> "", msg |-> <<>>]
Raised(e, m) == [kind |-> "raise", value |-> NoneValue, exc |-> e, msg |-> m]

NoOp == [name |-> "none", mac |-> <<>>, kwargs |-> <<>>, device_id |-> ""]
NoHcall == [helper |-> "none", call_method |-> "", api_call |-> <<>>,
            parameters |-> NoneParams, return_type |-> ""]

---------------------------------------------------------------------------
(* URL construction. *)

\* "{0}://{1}/crm/api/{2}/{3}".format(protocol, server, crm version, sub_path)
_build_url_crm(sub_path) ==
    LET protocol == IF _secure THEN "https" ELSE "http"
    IN <<protocol, "://", _server, "/crm/api/", _api_version_crm, "/">> \o sub_path

\* _build_url_nms with the versions exchanged
_build_url_nms_crm_version(sub_path) ==
    <<IF _secure THEN "https" ELSE "http", "://", _server, "/nms/api/",
      _api_version_crm, "/">> \o sub_path

\* "{0}://{1}/nms/api/{2}/{3}".format(protocol, server, nms version, sub_path)
_build_url_nms(sub_path) ==
    LET protocol == IF _secure THEN "https" ELSE "http"
        url == <<protocol, "://", _server, "/nms/api/", _api_version_nms, "/">>
                   \o sub_path
    IN url

---------------------------------------------------------------------------
(* Request headers. *)

crm_headers ==
    ("Content-Type" :> "application/json") @@ ("X-Auth-App-Key" :> _app_key)

\* the NMS helper sending the CRM header name
nms_headers_crm_name ==
    ("accept" :> "application/json") @@ ("X-Auth-App-Key" :> _app_key)

nms_headers ==
    ("accept" :> "application/json") @@ ("x-auth-token" :> _app_key)

---------------------------------------------------------------------------
(* urllib.parse.quote_plus, on the characters of MacChars. *)

\* the characters quote never encodes: letters, digits and "_.-~"
AlwaysSafe == {"a"}

\* '%XX' with XX the upper-case hexadecimal code of the character
PercentEncoded(c) ==
    CASE c = ":" -> <<"%", "3", "A">>
      [] c = "/" -> <<"%", "2", "F">>
      [] c = "+" -> <<"%", "2", "B">>
      [] c = "%" -> <<"%", "2", "5">>
      [] c = " " -> <<"%", "2", "0">>

RECURSIVE quote(_, _)
quote(string, safe) ==
    IF string = <<>> THEN <<>>
    ELSE LET c == Head(string)
         IN (IF c \in AlwaysSafe \cup safe THEN <<c>> ELSE PercentEncoded(c))
                \o quote(Tail(string), safe)

\* urllib.parse.quote with its default safe='/', which a path segment must
\* not be encoded with
quote_default_safe(string) == quote(string, {"/"})

\* quote_plus(string): quote with the space kept, then ' ' replaced by '+'
quote_plus(string) ==
    LET quoted == quote(string, {" "})
    IN [i \in 1..Len(quoted) |-> IF quoted[i] = " " THEN "+" ELSE quoted[i]]

---------------------------------------------------------------------------
(* The query parameters device_list builds from its keyword arguments. *)

RECURSIVE device_list_params_loop(_, _, _)
device_list_params_loop(kwargs, todo, params) ==
    IF todo = {} THEN params
    ELSE LET key == CHOOSE k \in todo : TRUE
         IN device_list_params_loop(kwargs, todo \ {key},
                                    (key :> kwargs[key]) @@ params)

\* device_list dropping the filters whose key is 'name'
device_list_params_drop_name(kwargs) ==
    device_list_params_loop(kwargs, DOMAIN kwargs \ {"name"}, <<>>)

\* params = {}; for key, value in kwargs.items(): params[key] = value
device_list_params(kwargs) ==
    device_list_params_loop(kwargs, DOMAIN kwargs, <<>>)

---------------------------------------------------------------------------
(* What the helpers make of the response. *)

\* response.json(): the decoded body, or a decoding error
json(resp) ==
    IF resp.body.kind = "text"
    THEN Raised("JSONDecodeError", <<"Expecting value">>)
    ELSE Returned(JsonValue(resp.body))

\* the CRM helper after requests.get, for call_method 'get'
_call_api_crm_result(resp, return_type) ==
    IF ~resp.ok THEN Raised("ConnectionError", <<>>)
    ELSE IF return_type = "json" THEN json(resp)
    ELSE Returned(NoneValue)            \* falls off the end of the function

\* the NMS helper accepting every 2xx status
_call_api_nms_result_any_2xx(resp, return_type) ==
    IF ~resp.ok THEN Raised("ConnectionError", <<>>)
    ELSE IF resp.status \in 200..299
         THEN IF return_type = "json" THEN json(resp)
              ELSE Returned(RawValue(resp.body))
         ELSE Raised("RuntimeError",
                     <<"Got error '{r.status_code}' while executing request">>)

\* the NMS helper after requests.get; the message is not an f-string, so the
\* braces and the name between them are part of the text
_call_api_nms_result(resp, return_type) ==
    IF ~resp.ok THEN Raised("ConnectionError", <<>>)
    ELSE IF resp.status = 200
         THEN IF return_type = "json" THEN json(resp)
              ELSE Returned(RawValue(resp.body))
         ELSE Raised("RuntimeError",
                     <<"Got error '{r.status_code}' while executing request">>)

\* version_get returning the whole decoded body
version_get_result_whole_body(result) == result

\* return result['version']
version_get_result(result) ==
    IF result.kind = "raise" THEN result
    ELSE IF result.value.body.kind = "object"
         THEN IF result.value.body.version # NoVersion
              THEN Returned(StrValue(result.value.body.version))
              ELSE Raised("KeyError", <<"version">>)
         ELSE Raised("TypeError", <<"list indices must be integers or slices, not str">>)

\* return result
nms_operation_result(result) == result

\* what the operation in progress hands to its caller, given the response
invocation_outcome(resp) ==
    LET result == IF hcall.helper = "crm"
                  THEN _call_api_crm_result(resp, hcall.return_type)
                  ELSE _call_api_nms_result(resp, hcall.return_type)
    IN IF op.name = "version_get" THEN version_get_result(result)
       ELSE IF op.name \in {"device_list", "get_device_by_mac",
                            "get_device_creds", "get_gateways"}
            THEN nms_operation_result(result)
            ELSE result

---------------------------------------------------------------------------
(* The state before the constructor has run. *)

Init ==
    /\ pc = "new"
    /\ init_args = [uisp_server |-> "", app_key |-> "", crm_version |-> "",
                    nms_version |-> "", secure |-> FALSE]
    /\ _secure = FALSE
    /\ _server = ""
    /\ _api_version_crm = ""
    /\ _api_version_nms = ""
    /\ _app_key = ""
    /\ op = NoOp
    /\ hcall = NoHcall
    /\ sent = <<>>
    /\ response = NoResponse
    /\ outcome = NoOutcome

\* a constructor that forgets its secure argument
__init___secure_dropped ==
    /\ pc = "new"
    /\ \E server \in Servers, key \in AppKeys, crm \in CrmVersions,
          nms \in NmsVersions, secure \in BOOLEAN :
          /\ init_args' = [uisp_server |-> server, app_key |-> key,
                           crm_version |-> crm, nms_version |-> nms,
                           secure |-> secure]
          /\ _secure' = TRUE
          /\ _server' = server
          /\ _api_version_crm' = crm
          /\ _api_version_nms' = nms
          /\ _app_key' = key
    /\ pc' = "idle"
    /\ UNCHANGED <<op, hcall, sent, response, outcome>>

\* UispApi(uisp_server, app_key, crm_version, nms_version, secure)
__init__ ==
    /\ pc = "new"
    /\ \E server \in Servers, key \in AppKeys, crm \in CrmVersions,
          nms \in NmsVersions, secure \in BOOLEAN :
          /\ init_args' = [uisp_server |-> server, app_key |-> key,
                           crm_version |-> crm, nms_version |-> nms,
                           secure |-> secure]
          /\ _secure' = secure
          /\ _server' = server
          /\ _api_version_crm' = crm
          /\ _api_version_nms' = nms
          /\ _app_key' = key
    /\ pc' = "idle"
    /\ UNCHANGED <<op, hcall, sent, response, outcome>>

---------------------------------------------------------------------------
(* The private helpers, up to the point where requests.get is called. *)

\* the helper raises before any request is made
raise_before_request(exc, msg) ==
    /\ pc' = "returning"
    /\ outcome' = Raised(exc, msg)
    /\ UNCHANGED <<sent, response>>

\* requests.get(api_url, headers=headers, params=parameters) is called
requests_get(api_url, headers, parameters) ==
    /\ pc' = "waiting"
    /\ sent' = Append(sent, [method |-> "GET", url |-> api_url,
                             headers |-> headers, params |-> parameters])
    /\ UNCHANGED <<response, outcome>>

_call_api_crm(call_method, api_call, parameters, return_type) ==
    /\ hcall' = [helper |-> "crm", call_method |-> call_method,
                 api_call |-> api_call, parameters |-> parameters,
                 return_type |-> return_type]
    /\ IF call_method \notin {"delete", "get", "patch", "post"}
       THEN raise_before_request("APIException",
                                 <<"Unknown call method: ", call_method>>)
       ELSE IF call_method = "get"
            THEN requests_get(_build_url_crm(api_call), crm_headers, parameters)
            ELSE raise_before_request(
                     "APIException",
                     <<"Unimplemented call method: {call_method}">>)
    /\ UNCHANGED <<init_args, attrs>>

\* call_method is accepted and never read
_call_api_nms(call_method, api_call, parameters, return_type) ==
    /\ hcall' = [helper |-> "nms", call_method |-> call_method,
                 api_call |-> api_call, parameters |-> parameters,
                 return_type |-> return_type]
    /\ requests_get(_build_url_nms(api_call), nms_headers, parameters)
    /\ UNCHANGED <<init_args, attrs>>

---------------------------------------------------------------------------
(* The public operations. *)

version_get ==
    /\ pc = "idle"
    /\ op' = [NoOp EXCEPT !.name = "version_get"]
    /\ _call_api_crm("get", <<"version">>, NoneParams, "json")

device_list ==
    /\ pc = "idle"
    /\ \E kwargs \in Kwargs :
          /\ op' = [NoOp EXCEPT !.name = "device_list", !.kwargs = kwargs]
          /\ _call_api_nms("get", <<"devices">>,
                           DictParams(device_list_params(kwargs)), "json")

get_device_by_mac ==
    /\ pc = "idle"
    /\ \E mac \in Macs :
          /\ op' = [NoOp EXCEPT !.name = "get_device_by_mac", !.mac = mac]
          /\ _call_api_nms("get", <<"devices/mac/">> \o quote_plus(mac),
                           NoneParams, "json")

get_device_creds ==
    /\ pc = "idle"
    /\ \E device_id \in DeviceIds :
          /\ op' = [NoOp EXCEPT !.name = "get_device_creds",
                                !.device_id = device_id]
          /\ _call_api_nms("get", <<"vault/", device_id, "/credentials">>,
                           NoneParams, "json")

get_gateways ==
    /\ pc = "idle"
    /\ op' = [NoOp EXCEPT !.name = "get_gateways"]
    /\ _call_api_nms("get", <<"gateways">>, NoneParams, "json")

(* The private helpers called on their own, with any call method. *)

call_api_crm ==
    /\ pc = "idle"
    /\ op' = [NoOp EXCEPT !.name = "_call_api_crm"]
    /\ \E call_method \in CallMethods, api_call \in SubPaths,
          return_type \in ReturnTypes :
          _call_api_crm(call_method, api_call, NoneParams, return_type)

call_api_nms ==
    /\ pc = "idle"
    /\ op' = [NoOp EXCEPT !.name = "_call_api_nms"]
    /\ \E call_method \in CallMethods, api_call \in SubPaths,
          return_type \in ReturnTypes :
          _call_api_nms(call_method, api_call, NoneParams, return_type)

---------------------------------------------------------------------------
(* requests.get comes back and the invocation runs to its end. *)

\* a helper that asks once more when the transport failed
requests_get_returns_retrying ==
    /\ pc = "waiting"
    /\ \E resp \in Responses :
          IF ~resp.ok /\ Len(sent) < 2
          THEN /\ sent' = Append(sent, sent[1])
               /\ UNCHANGED <<pc, response, outcome>>
          ELSE /\ response' = resp
               /\ outcome' = invocation_outcome(resp)
               /\ pc' = "returning"
               /\ UNCHANGED sent
    /\ UNCHANGED <<init_args, attrs, op, hcall>>

requests_get_returns ==
    /\ pc = "waiting"
    /\ \E resp \in Responses :
          /\ response' = resp
          /\ outcome' = invocation_outcome(resp)
    /\ pc' = "returning"
    /\ UNCHANGED <<init_args, attrs, op, hcall, sent>>

\* the caller has the value or the exception; the invocation's frame is gone
caller_resumes ==
    /\ pc = "returning"
    /\ pc' = "idle"
    /\ op' = NoOp
    /\ hcall' = NoHcall
    /\ sent' = <<>>
    /\ response' = NoResponse
    /\ outcome' = NoOutcome
    /\ UNCHANGED <<init_args, attrs>>

Next ==
    \/ __init__
    \/ version_get
    \/ device_list
    \/ get_device_by_mac
    \/ get_device_creds
    \/ get_gateways
    \/ call_api_crm
    \/ call_api_nms
    \/ requests_get_returns
    \/ caller_resumes

Spec == Init /\ [][Next]_vars

---------------------------------------------------------------------------
(* Vocabulary of the properties. *)

PublicOps == {"version_get", "device_list", "get_device_by_mac",
              "get_device_creds", "get_gateways"}
NmsOps == PublicOps \ {"version_get"}

\* an invocation is in progress or has just ended
Invoked == pc \in {"waiting", "returning"}

\* the scheme the constructor's secure flag asks for
Scheme == IF init_args.secure THEN "https" ELSE "http"

\* {scheme}://{host}/{family}/api/{version}/ from the constructor's arguments
UrlPrefix(family, version) ==
    <<Scheme, "://", init_args.uisp_server, "/" \o family \o "/api/", version, "/">>

\* urllib.parse.unquote_plus, the decoder a server applies to what quote_plus
\* produced: '+' is a space, '%XX' is the character with that code, and a '%'
\* not followed by two hexadecimal digits stays as it is
HexDigits == {"0", "1", "2", "3", "4", "5", "6", "7", "8", "9",
              "A", "B", "C", "D", "E", "F", "a", "b", "c", "d", "e", "f"}

Decoded(h1, h2) ==
    CASE <<h1, h2>> \in {<<"3", "A">>, <<"3", "a">>} -> ":"
      [] <<h1, h2>> \in {<<"2", "F">>, <<"2", "f">>} -> "/"
      [] <<h1, h2>> \in {<<"2", "B">>, <<"2", "b">>} -> "+"
      [] <<h1, h2>> = <<"2", "5">> -> "%"
      [] <<h1, h2>> = <<"2", "0">> -> " "
      [] OTHER -> "?"           \* some character outside MacChars

RECURSIVE unquote(_)
unquote(string) ==
    IF string = <<>> THEN <<>>
    ELSE IF /\ Head(string) = "%"
            /\ Len(string) >= 3
            /\ string[2] \in HexDigits
            /\ string[3] \in HexDigits
         THEN <<Decoded(string[2], string[3])>>
                  \o unquote(SubSeq(string, 4, Len(string)))
         ELSE <<Head(string)>> \o unquote(Tail(string))

unquote_plus(string) ==
    unquote([i \in 1..Len(string) |-> IF string[i] = "+" THEN " " ELSE string[i]])

---------------------------------------------------------------------------
(* C1: with either private helper, a call method other than 'get' fails    *)
(* with an APIException and no HTTP request is issued.                     *)
C1_NonGetFailsWithoutRequest ==
    (Invoked /\ hcall.call_method # "get") =>
        /\ pc = "returning"
        /\ outcome.kind = "raise"
        /\ outcome.exc = "APIException"
        /\ sent = <<>>

(* C2: when an NMS operation receives a non-success status s, it raises    *)
(* and the text of the error contains s.                                   *)
C2_NmsErrorIdentifiesStatus ==
    (/\ pc = "returning"
     /\ op.name \in NmsOps
     /\ response.ok
     /\ response.status \notin 200..299) =>
        /\ outcome.kind = "raise"
        /\ \E i \in 1..Len(outcome.msg) :
              outcome.msg[i] = ToString(response.status)

(* C3: version_get issues one GET for                                      *)
(* {scheme}://{host}/crm/api/{crmVersion}/version and returns exactly the  *)
(* 'version' field of the decoded body; it raises when the field is absent *)
(* or the request fails.                                                   *)
C3_VersionGet ==
    (Invoked /\ op.name = "version_get") =>
        /\ Len(sent) = 1
        /\ sent[1].method = "GET"
        /\ sent[1].url = UrlPrefix("crm", init_args.crm_version) \o <<"version">>
        /\ pc = "returning" =>
              LET present == /\ response.ok
                             /\ response.body.kind = "object"
                             /\ response.body.version # NoVersion
              IN /\ present => outcome = Returned(StrValue(response.body.version))
                 /\ ~present => outcome.kind = "raise"

C3_Witness ==
    /\ pc = "returning"
    /\ op.name = "version_get"
    /\ response.ok
    /\ response.body = BodyObject("1.13.0")
    /\ outcome.kind = "return"
    /\ outcome.value.str = "1.13.0"

(* C4: the query parameters of the GET device_list issues against          *)
(* /nms/api/{nmsVersion}/devices are exactly the filters it was given.     *)
C4_DeviceListParams ==
    (Invoked /\ op.name = "device_list") =>
        /\ Len(sent) = 1
        /\ sent[1].method = "GET"
        /\ sent[1].url = UrlPrefix("nms", init_args.nms_version) \o <<"devices">>
        /\ ~sent[1].params.none
        /\ DOMAIN sent[1].params.items = DOMAIN op.kwargs
        /\ \A k \in DOMAIN op.kwargs : sent[1].params.items[k] = op.kwargs[k]

C4_Witness ==
    /\ pc = "waiting"
    /\ op.name = "device_list"
    /\ DOMAIN op.kwargs = {"role", "name"}
    /\ op.kwargs["role"] = "ap"
    /\ op.kwargs["name"] = "router"
    /\ Len(sent) = 1

(* C5: get_device_by_mac requests devices/mac/{e}, where e holds no raw    *)
(* ':' or '/' and decodes to the MAC it was given.                         *)
C5_MacQuoted ==
    (Invoked /\ op.name = "get_device_by_mac") =>
        /\ Len(sent) = 1
        /\ Len(sent[1].url) >= 7
        /\ SubSeq(sent[1].url, 1, 7) =
               UrlPrefix("nms", init_args.nms_version) \o <<"devices/mac/">>
        /\ LET e == SubSeq(sent[1].url, 8, Len(sent[1].url))
           IN /\ \A i \in 1..Len(e) : e[i] \notin {":", "/"}
              /\ unquote_plus(e) = op.mac

C5_Witness ==
    /\ pc = "waiting"
    /\ op.name = "get_device_by_mac"
    /\ op.mac = <<":", "/">>
    /\ SubSeq(sent[1].url, 8, Len(sent[1].url)) = <<"%", "3", "A", "%", "2", "F">>

(* C6: a request sent through the CRM helper carries the constructor's key *)
(* as X-Auth-App-Key and no x-auth-token; one sent through the NMS helper  *)
(* carries it as x-auth-token, with accept: application/json, and no       *)
(* X-Auth-App-Key.                                                         *)
C6_AuthHeaders ==
    \A i \in 1..Len(sent) :
        LET h == sent[i].headers
        IN /\ hcall.helper = "crm" =>
                 /\ "X-Auth-App-Key" \in DOMAIN h
                 /\ h["X-Auth-App-Key"] = init_args.app_key
                 /\ "x-auth-token" \notin DOMAIN h
           /\ hcall.helper = "nms" =>
                 /\ "x-auth-token" \in DOMAIN h
                 /\ h["x-auth-token"] = init_args.app_key
                 /\ "accept" \in DOMAIN h
                 /\ h["accept"] = "application/json"
                 /\ "X-Auth-App-Key" \notin DOMAIN h

C6_Witness ==
    /\ pc = "waiting"
    /\ op.name = "get_gateways"
    /\ init_args.app_key = "key-B"
    /\ sent[1].headers["x-auth-token"] = "key-B"

C8_ConfigReadOnly ==
    /\ pc # "new" =>
          /\ _server = init_args.uisp_server
          /\ _app_key = init_args.app_key
          /\ _api_version_crm = init_args.crm_version
          /\ _api_version_nms = init_args.nms_version
          /\ _secure = init_args.secure
    /\ pc \in {"new", "idle"} => (sent = <<>> /\ ~response.received)

C8_Witness ==
    /\ pc = "returning"
    /\ op.name = "get_device_by_mac"
    /\ outcome.kind = "raise"
    /\ ~init_args.secure
    /\ ~_secure

(* C9: an invocation issues at most one HTTP request, and an unsupported   *)
(* method, a transport failure, a non-200 NMS status or a body that does   *)
(* not decode ends the invocation with that exception.                     *)
C9_NoRetryErrorsPropagate ==
    /\ Len(sent) <= 1
    /\ pc = "returning" =>
          /\ Len(sent) = 0 =>
                (outcome.kind = "raise" /\ outcome.exc = "APIException")
          /\ Len(sent) = 1 =>
                /\ response.received
                /\ ~response.ok =>
                      (outcome.kind = "raise" /\ outcome.exc = "ConnectionError")
                /\ (response.ok /\ hcall.helper = "nms" /\ response.status # 200) =>
                      (outcome.kind = "raise" /\ outcome.exc = "RuntimeError")
                /\ (/\ response.ok
                    /\ hcall.helper = "crm" \/ response.status = 200
                    /\ hcall.return_type = "json"
                    /\ response.body.kind = "text") =>
                      (outcome.kind = "raise" /\ outcome.exc = "JSONDecodeError")

C9_Witness ==
    /\ pc = "returning"
    /\ op.name = "device_list"
    /\ Len(sent) = 1
    /\ response.ok
    /\ response.status = 500
    /\ outcome.kind = "raise"
    /\ outcome.exc = "RuntimeError"

(* C10 as stated: the NMS helper returns the body exactly when the status  *)
(* is 200 and raises RuntimeError otherwise; the CRM helper returns the    *)
(* decoded body of a GET for every status.                                 *)
C10_StatusAsymmetry_AsStated ==
    (pc = "returning" /\ response.ok /\ op.name # "version_get") =>
        /\ hcall.helper = "nms" =>
              /\ outcome.kind = "return" <=> response.status = 200
              /\ response.status # 200 => outcome.exc = "RuntimeError"
        /\ hcall.helper = "crm" => outcome = Returned(JsonValue(response.body))

(* C10 as amended: the NMS helper raises RuntimeError exactly when the     *)
(* status is not 200; at 200 it does what the CRM helper does for every    *)
(* status: with return_type 'json' it returns the decoded body, or raises  *)
(* the decoder's error when the body is not JSON.  With another            *)
(* return_type the NMS helper returns the raw body and the CRM helper      *)
(* returns None.                                                           *)
C10_StatusAsymmetry ==
    (pc = "returning" /\ response.ok /\ op.name # "version_get") =>
        LET decoded == IF response.body.kind = "text"
                       THEN outcome.kind = "raise" /\ outcome.exc = "JSONDecodeError"
                       ELSE outcome = Returned(JsonValue(response.body))
        IN /\ hcall.helper = "nms" =>
                 /\ (outcome.kind = "raise" /\ outcome.exc = "RuntimeError")
                        <=> response.status # 200
                 /\ response.status = 200 =>
                       IF hcall.return_type = "json" THEN decoded
                       ELSE outcome = Returned(RawValue(response.body))
           /\ hcall.helper = "crm" =>
                 IF hcall.return_type = "json" THEN decoded
                 ELSE outcome = Returned(NoneValue)

C10_Witness ==
    /\ pc = "returning"
    /\ op.name = "_call_api_nms"
    /\ response.ok
    /\ response.status = 204
    /\ response.body = BodyObject("2.0.0")
    /\ outcome.kind = "raise"
    /\ outcome.exc = "RuntimeError"

====
